---- MODULE Spec2Model ----
(***************************************************************************)
(* Model of the notification dispatch engine:                              *)
(*   src/src/services/NotificationService.js  (queue, processor, retry)    *)
(*   src/src/services/DatabaseService.js      (record store)               *)
(*   src/src/server.js                        (submission endpoints)       *)
(*   src/src/providers, src/unnamed/part_000  (the providers' send)        *)
(* Every "await" of the JavaScript code is a suspension point, so each     *)
(* handler is cut into one action per stretch of code that runs between    *)
(* two awaits.  A store call takes effect atomically (one SQL statement).  *)
(* sentAt and failedAt are abstracted to "set" (TRUE) / "unset" (FALSE),   *)
(* createdAt to the row's place in the order of creation.                  *)
(***************************************************************************)
EXTENDS Naturals, Integers, Sequences, FiniteSets, Bags, TLC

\* ---- bounds of the model ------------------------------------------------
MaxRequests == 3       \* requests the callers make in all: submissions (bulk items
                       \* each count) and retries, accepted or rejected
BATCH_SIZE == 2        \* config.BATCH_SIZE (100 by default, from the environment)
MaxBulk == 2           \* the longest notifications array of a bulk call
MaxDay == 2            \* calendar days 0..MaxDay of the clock (purge on its own)
MaxTime == 1           \* times of day 0..MaxTime of the clock
MaxRows == 2           \* rows of the table a list call reads (list on its own)
MaxLen == 320          \* the longest message whose segments are counted

Ids == 1..MaxRequests

\* notification types a caller may submit: "email" has a provider bound,
\* "fax" is a type string for which initializeProviders registers nothing
Types == {"email", "fax"}

\* what a provider's send may do: resolve with success=true ("ok"), resolve
\* with success=false ("fail"), throw ("throw"), resolve with no result
\* object ("none")
ProviderOutcomes == {"ok", "fail", "throw", "none"}

VARIABLES
  store,       \* DatabaseService: the notifications table, id -> row
  queue,       \* NotificationService.queue
  processing,  \* NotificationService.processing (batch in flight)
  batch,       \* the processNotification invocations started by ticks
  submitting,  \* sendNotification calls waiting for their INSERT (a bag)
  retry,       \* retryFailedNotification calls in progress (a bag): position and locals
  nextId,      \* the next id uuidv4() hands to a record that gets stored
  rejected,    \* the errors handed back to callers so far (a bag of error names)
  requests,    \* the requests the callers have made so far (bulk items each count)
  probe        \* the last call of a function checked on its own: input and output

vars == <<store, queue, processing, batch, submitting, retry, nextId, rejected,
          requests, probe>>

\* ---- server.js: request bodies and their validation ----------------------
\* the body of POST /api/notifications/send: each required field is present
\* or falsy ("" stands for a field that is absent or empty)
Requests ==
  {[recipient |-> "r", message |-> "m", type |-> t] : t \in Types}
    \cup {[recipient |-> "", message |-> "m", type |-> "email"],
          [recipient |-> "r", message |-> "", type |-> "email"],
          [recipient |-> "r", message |-> "m", type |-> ""]}

\* accepts a body whatever fields it lacks
ValidationFailsNever(req) == FALSE

\* line 46: !recipient || !message || !type
ValidationFails(req) == req.recipient = "" \/ req.message = "" \/ req.type = ""

\* the elements of the notifications array of POST /api/notifications/bulk-send:
\* an object with its fields and no id; an object whose recipient is the
\* empty string, or is absent (message behaves as recipient does); an object
\* that carries an id of its own; null.  Every object carries a status
\* field of its own, "sent" (an object without one is treated alike: line
\* 70 sets the status whatever the item holds).
BulkItems ==
  {[shape |-> "object", type |-> "email", recipient |-> x, ownId |-> FALSE,
    status |-> "sent"] : x \in {"r", "", "absent"}}
    \cup {[shape |-> "object", type |-> "email", recipient |-> "r", ownId |-> TRUE,
           status |-> "sent"],
          [shape |-> "null", type |-> "-", recipient |-> "absent", ownId |-> FALSE,
           status |-> "-"]}

\* the notifications field of the body: absent, something that is not an
\* array, or an array of items
BulkBodies ==
  {[kind |-> k, items |-> <<>>] : k \in {"absent", "notArray"}}
    \cup {[kind |-> "array", items |-> q] :
             q \in UNION {[1..n -> BulkItems] : n \in 0..MaxBulk}}

\* line 131: !notifications || !Array.isArray(notifications)
BulkValidationFails(body) == body.kind # "array"

\* one more error handed back to a caller: the 400 answers of the two routes
\* ("MissingRequiredFields", "ArrayRequired"), the 500 of the bulk route
\* ("InternalError") and the errors retry throws
Reject(err) == rejected (+) SetToBag({err})

\* ---- DatabaseService ----------------------------------------------------
\* a row that does not exist
Absent == [type |-> "-", status |-> "absent", retryCount |-> 0,
           providerResponse |-> "null", error |-> "null",
           sentAt |-> FALSE, failedAt |-> FALSE, createdAt |-> 0,
           updatedAt |-> FALSE]

\* the row INSERT creates: columns not listed in the INSERT take the
\* defaults of CREATE TABLE.  updatedAt is bound to the instant of the
\* INSERT: FALSE stands for that instant, TRUE for any later one.
NewRow(n) == [type |-> n.type, status |-> n.status, retryCount |-> 0,
              providerResponse |-> "null", error |-> "null",
              sentAt |-> FALSE, failedAt |-> FALSE, createdAt |-> n.timestamp,
              updatedAt |-> FALSE]

Exists(db, id) == db[id].status # "absent"

\* new Date().toISOString() of a notification being created, as its place in
\* the order of creation: later than every stored row
Timestamp(db) ==
  1 + (CHOOSE m \in 0..MaxRequests :
         /\ \E i \in Ids : db[i].createdAt = m
         /\ \A i \in Ids : db[i].createdAt <= m)

\* an INSERT that takes whatever it is given
saveNotificationNeverFails(db, n) == FALSE

\* INSERT INTO notifications: fails on the PRIMARY KEY when the id exists,
\* and on NOT NULL when recipient is bound to undefined (an empty string is
\* not NULL)
saveNotificationFails(db, n) == Exists(db, n.id) \/ n.recipient = "absent"
saveNotification(db, n) ==
  IF saveNotificationFails(db, n) THEN db
  ELSE [db EXCEPT ![n.id] = NewRow(n)]

\* lines 127-135: the callback of the UPDATE rejects only on an SQL error.
\* An UPDATE whose WHERE matches no row is no error: it resolves, with
\* changes 0, which no caller looks at.
updateNotificationFails(db, id) == FALSE

\* an UPDATE that writes a whole row: the columns the patch leaves out go
\* back to what they were at creation
updateNotificationReplacesRow(db, id, patch) ==
  IF ~Exists(db, id) THEN db
  ELSE [db EXCEPT ![id] =
          [f \in DOMAIN db[id] |->
             IF f \in DOMAIN patch THEN patch[f]
             ELSE IF f = "updatedAt" THEN TRUE
             ELSE IF f \in {"type", "createdAt"} THEN db[id][f]
             ELSE Absent[f]]]

\* UPDATE notifications SET <patch>, updatedAt = ? WHERE id = ?: the columns
\* of the patch are overwritten, updatedAt is set to the instant of the
\* call, the others are kept; no row, no change (and no error)
updateNotification(db, id, patch) ==
  IF ~Exists(db, id) THEN db
  ELSE [db EXCEPT ![id] =
          [f \in DOMAIN db[id] |->
             IF f \in DOMAIN patch THEN patch[f]
             ELSE IF f = "updatedAt" THEN TRUE
             ELSE db[id][f]]]

getNotification(db, id) == db[id]

\* ---- NotificationService: providers --------------------------------------
\* a registry that answers every type string
HasProviderForAnyType(type) == TRUE

\* initializeProviders: the keys of this.providers
HasProvider(type) == type = "email"

\* ---- NotificationService.processNotification -----------------------------
\* a first update that leaves the status as it is
ProcessingPatchKeepsStatus == [error |-> "null"]

\* line 97
ProcessingPatch == [status |-> "processing"]

\* the write-back without its status column
OutcomePatchWithoutStatus(result) ==
  [providerResponse |-> result, sentAt |-> TRUE]

\* lines 109-118: the write-back after send resolved with a result object
OutcomePatch(result) ==
  [status |-> IF result = "ok" THEN "sent" ELSE "failed",
   providerResponse |-> result,
   sentAt |-> TRUE]

\* error.message of what the try block threw
CatchError(type, r) ==
  IF ~HasProvider(type) THEN "NoProvider"
  ELSE IF r = "throw" THEN "SendThrew"
  ELSE "TypeError"

\* the catch block's write-back without failedAt
FailedPatchWithoutFailedAt(err) == [status |-> "failed", error |-> err]

\* lines 131-135: the write-back of the catch block
FailedPatch(err) == [status |-> "failed", error |-> err, failedAt |-> TRUE]

\* lines 241-244
RetryPatch(rc) == [status |-> "pending", retryCount |-> rc]

\* a processNotification invocation as started by batch.map
Member(e) == [id |-> e.id, type |-> e.type, pc |-> "start", result |-> "-"]

\* a wait that gives up on a member whose send has not returned
RunningUnlessHung(m) == m.pc \notin {"done", "hung"}

\* an invocation that has not settled: Promise.allSettled (line 160) waits
\* for it, with no timeout
Running(m) == m.pc # "done"

\* Promise.race in place of Promise.allSettled: the first member to settle
\* ends the wait
AnySettled(b) == \E k \in DOMAIN b : ~Running(b[k])

\* Promise.allSettled(promises): every member has settled
AllSettled(b) == \A k \in DOMAIN b : ~Running(b[k])

Min(a, b) == IF a < b THEN a ELSE b

\* a splice that empties the queue whatever n is
SpliceRestDropsAll(q, n) == <<>>

\* queue.splice(0, n): the removed head and what is left
SpliceTaken(q, n) == SubSeq(q, 1, Min(n, Len(q)))
SpliceRest(q, n) == SubSeq(q, Min(n, Len(q)) + 1, Len(q))

\* every member has settled and the flag is still set: the promise reactions
\* that end the wait of line 160 and run the finally block are queued as
\* microtasks, which run before any other callback gets its turn
FanInDue == processing /\ batch # <<>> /\ AllSettled(batch)

\* the guard without its test of this.processing
TickSkipsOnEmptyOnly == Len(queue) = 0

\* the guard without its test of the queue length
TickSkipsOnProcessingOnly == processing

\* the guard of the interval callback (line 143)
TickSkips == processing \/ Len(queue) = 0

\* the requests made so far: submissions, the items of bulk calls, retry
\* calls, accepted or rejected
RequestsSoFar == requests

\* ---- initial state --------------------------------------------------------
\* the service as constructed: empty table, empty queue, no batch in flight
ServiceInit ==
  /\ store = [i \in Ids |-> Absent]
  /\ queue = <<>>
  /\ processing = FALSE
  /\ batch = <<>>
  /\ submitting = EmptyBag
  /\ retry = EmptyBag
  /\ nextId = 1
  /\ rejected = EmptyBag
  /\ requests = 0

Init ==
  /\ ServiceInit
  /\ probe = [op |-> "none"]

\* ---- submission -----------------------------------------------------------
\* a sendNotification call waiting for the callback of its INSERT: the
\* notification, whether the INSERT succeeded, and in a bulk call the items
\* the loop has still to reach
Entry(n, ok, rest) ==
  [id |-> n.id, type |-> n.type, recipient |-> n.recipient, ok |-> ok, rest |-> rest]

\* the same handler queueing at once, before the INSERT has completed
SubmitSaveQueuesFirst(req) ==
  /\ RequestsSoFar < MaxRequests
  /\ requests' = requests + 1
  /\ IF ValidationFails(req)
     THEN /\ rejected' = Reject("MissingRequiredFields")
          /\ UNCHANGED <<store, queue, submitting, nextId>>
     ELSE LET n == [id |-> nextId, type |-> req.type, recipient |-> req.recipient,
                    status |-> "pending", timestamp |-> Timestamp(store)] IN
            /\ store' = saveNotification(store, n)
            /\ queue' = Append(queue, [id |-> n.id, type |-> n.type])
            /\ submitting' = submitting (+) SetToBag({Entry(n, TRUE, <<>>)})
            /\ nextId' = nextId + 1
            /\ rejected' = rejected
  /\ UNCHANGED <<processing, batch, retry, probe>>

\* POST /api/notifications/send up to the await of saveNotification: the
\* validation (400 and nothing else when it fails), a fresh id, status
\* pending, INSERT
SubmitSave(req) ==
  /\ RequestsSoFar < MaxRequests
  /\ requests' = requests + 1
  /\ IF ValidationFails(req)
     THEN /\ rejected' = Reject("MissingRequiredFields")
          /\ UNCHANGED <<store, submitting, nextId>>
     ELSE LET n == [id |-> nextId, type |-> req.type, recipient |-> req.recipient,
                    status |-> "pending", timestamp |-> Timestamp(store)] IN
            /\ ~saveNotificationFails(store, n)
            /\ store' = saveNotification(store, n)
            /\ submitting' = submitting (+) SetToBag({Entry(n, TRUE, <<>>)})
            /\ nextId' = nextId + 1
            /\ rejected' = rejected
  /\ UNCHANGED <<queue, processing, batch, retry, probe>>

\* line 68, notificationData.id || uuidv4(): the id an item carries is one
\* the service handed out before, the id of an item without one is fresh
BulkItemIds(item) == IF item.ownId THEN 1..(nextId - 1) ELSE {nextId}

\* a notification that keeps the status its item carries
BulkStatusOfItem(item) == item.status

\* lines 67-70: status: 'pending' is written after the spread of the item
\* and so replaces whatever status the item carries
BulkStatus(item) == "pending"

\* sendBulkNotifications, lines 64-73: the loop reaches its next item.  No
\* item left: the call returns its results.  null: line 68 throws, line 81
\* of the catch block throws again, the call rejects and the route answers
\* 500.  Otherwise the notification is built (the item's id or a fresh one,
\* status pending) and its INSERT issued, which fails or creates the row.
NextItem(items, others) ==
  IF items = <<>>
  THEN /\ submitting' = others
       /\ UNCHANGED <<store, nextId, rejected>>
  ELSE IF Head(items).shape = "null"
  THEN /\ submitting' = others
       /\ rejected' = Reject("InternalError")
       /\ UNCHANGED <<store, nextId>>
  ELSE \E id \in BulkItemIds(Head(items)) :
         LET n == [id |-> id, type |-> Head(items).type,
                   recipient |-> Head(items).recipient,
                   status |-> BulkStatus(Head(items)),
                   timestamp |-> Timestamp(store)]
             ok == ~saveNotificationFails(store, n)
         IN /\ store' = saveNotification(store, n)
            /\ submitting' = others (+) SetToBag({Entry(n, ok, Tail(items))})
            /\ nextId' = IF ok /\ ~Head(items).ownId THEN nextId + 1 ELSE nextId
            /\ rejected' = rejected

\* POST /api/notifications/bulk-send up to the first await: the validation
\* (400 and nothing else when it fails), then sendBulkNotifications starts on
\* its first item.  An empty array ends the call with an empty result list.
\* An item can carry an id of its own once the service has handed one out.
BulkSend(body) ==
  /\ RequestsSoFar + Len(body.items) + (IF BulkValidationFails(body) THEN 1 ELSE 0)
        <= MaxRequests
  /\ requests' = requests + Len(body.items) + (IF BulkValidationFails(body) THEN 1 ELSE 0)
  /\ IF BulkValidationFails(body)
     THEN /\ rejected' = Reject("ArrayRequired")
          /\ UNCHANGED <<store, submitting, nextId>>
     ELSE /\ \A k \in DOMAIN body.items : body.items[k].ownId => nextId > 1
          /\ NextItem(body.items, submitting)
  /\ UNCHANGED <<queue, processing, batch, retry, probe>>

\* sendNotification after the await, the callback of an INSERT that
\* succeeded: queue.push, return {status: queued}.  In a bulk call the result
\* is recorded (lines 74-78) and the loop goes on to its next item in the
\* same turn.
SubmitPush(e) ==
  /\ ~FanInDue
  /\ BagIn(e, submitting)
  /\ e.ok
  /\ queue' = Append(queue, [id |-> e.id, type |-> e.type])
  /\ NextItem(e.rest, submitting (-) SetToBag({e}))
  /\ UNCHANGED <<processing, batch, retry, requests, probe>>

\* the callback of an INSERT that failed: sendNotification rethrows (line
\* 57), the catch block of the loop records the item's error result (lines
\* 79-84), nothing is queued, and the loop goes on to its next item
BulkItemFailed(e) ==
  /\ ~FanInDue
  /\ BagIn(e, submitting)
  /\ ~e.ok
  /\ NextItem(e.rest, submitting (-) SetToBag({e}))
  /\ UNCHANGED <<queue, processing, batch, retry, requests, probe>>

\* ---- the interval callback of startQueueProcessor --------------------------
Tick ==
  IF TickSkips
  THEN UNCHANGED vars
  ELSE /\ processing' = TRUE
       /\ queue' = SpliceRest(queue, BATCH_SIZE)
       /\ batch' = SelectSeq(batch, Running)
                     \o [k \in 1..Len(SpliceTaken(queue, BATCH_SIZE)) |->
                           Member(SpliceTaken(queue, BATCH_SIZE)[k])]
       /\ UNCHANGED <<store, submitting, retry, nextId, rejected, requests, probe>>

\* processNotification, line 97 takes effect (an update that failed would
\* throw into the catch block), then lines 99-106: the provider lookup, and
\* either the throw into the catch block or the call of send
MarkProcessing(k) ==
  /\ k \in DOMAIN batch
  /\ batch[k].pc = "start"
  /\ store' = updateNotification(store, batch[k].id, ProcessingPatch)
  /\ batch' = [batch EXCEPT ![k].pc =
                 IF updateNotificationFails(store, batch[k].id) THEN "catch"
                 ELSE IF HasProvider(batch[k].type) THEN "sending" ELSE "catch"]
  /\ UNCHANGED <<queue, processing, submitting, retry, nextId, rejected, requests, probe>>

\* provider.send settles and the write-back that follows takes effect: lines
\* 109-118 for a result object, the catch block (lines 123-135) for a throw or
\* for the TypeError on result.success.  The code between the settling and
\* the write touches only locals of the invocation, so the two are one step.
SendReturn(k, r) ==
  /\ k \in DOMAIN batch
  /\ batch[k].pc = "sending"
  /\ store' = updateNotification(store, batch[k].id,
                 IF r \in {"ok", "fail"} THEN OutcomePatch(r)
                 ELSE FailedPatch(CatchError(batch[k].type, r)))
  /\ batch' = [batch EXCEPT ![k].pc = "done", ![k].result = r]
  /\ UNCHANGED <<queue, processing, submitting, retry, nextId, rejected, requests, probe>>

\* a rejection that ends the whole batch: every sibling is dropped where it is
CatchWriteAbortsSiblings(k) ==
  /\ k \in DOMAIN batch
  /\ batch[k].pc = "catch"
  /\ store' = updateNotification(store, batch[k].id,
                 FailedPatch(CatchError(batch[k].type, "-")))
  /\ batch' = [j \in DOMAIN batch |-> [batch[j] EXCEPT !.pc = "done"]]
  /\ UNCHANGED <<queue, processing, submitting, retry, nextId, rejected, requests, probe>>

\* lines 123-138 after the throw of line 102: the catch block's write-back
\* takes effect, the invocation rejects and the .catch of line 154 turns the
\* rejection into a value
CatchWrite(k) ==
  /\ k \in DOMAIN batch
  /\ batch[k].pc = "catch"
  /\ store' = updateNotification(store, batch[k].id,
                 FailedPatch(CatchError(batch[k].type, "-")))
  /\ batch' = [batch EXCEPT ![k].pc = "done"]
  /\ UNCHANGED <<queue, processing, submitting, retry, nextId, rejected, requests, probe>>

\* lines 160-165: Promise.allSettled resolves, its value is dropped, finally
\* clears the flag
FanIn ==
  /\ FanInDue
  /\ processing' = FALSE
  /\ batch' = [k \in DOMAIN batch |-> [batch[k] EXCEPT !.result = "-"]]
  /\ UNCHANGED <<store, queue, submitting, retry, nextId, rejected, requests, probe>>

\* ---- retryFailedNotification ------------------------------------------------
\* a check that lets every stored record through, whatever its status
RetryErrorIgnoringStatus(db, id) ==
  IF ~Exists(db, id) THEN "NotFound" ELSE "none"

\* a check that lets a missing row through
RetryErrorIgnoringAbsence(db, id) ==
  IF Exists(db, id) /\ getNotification(db, id).status # "failed" THEN "InvalidState"
  ELSE "none"

\* lines 227-233: the two checks on the row that was read; "none" lets the
\* call go on
RetryError(db, id) ==
  IF ~Exists(db, id) THEN "NotFound"
  ELSE IF getNotification(db, id).status # "failed" THEN "InvalidState"
  ELSE "none"

\* lines 225-241, the callback of the read: the row, the two checks (either
\* throw ends the call with nothing changed but the error handed back), the
\* local reset, up to the await of updateNotification
RetryStart(id) ==
  /\ ~FanInDue
  /\ RequestsSoFar < MaxRequests
  /\ requests' = requests + 1
  /\ LET row == getNotification(store, id) IN
       IF RetryError(store, id) # "none"
       THEN /\ rejected' = Reject(RetryError(store, id))
            /\ retry' = retry
       ELSE /\ retry' = retry (+) SetToBag({[pc |-> "updating", id |-> id,
                                             type |-> row.type,
                                             rc |-> row.retryCount + 1]})
            /\ rejected' = rejected
  /\ UNCHANGED <<store, queue, processing, batch, submitting, nextId, probe>>

\* lines 241-244 take effect
RetryUpdate(c) ==
  /\ BagIn(c, retry)
  /\ c.pc = "updating"
  /\ store' = updateNotification(store, c.id, RetryPatch(c.rc))
  /\ retry' = (retry (-) SetToBag({c})) (+) SetToBag({[c EXCEPT !.pc = "pushing"]})
  /\ UNCHANGED <<queue, processing, batch, submitting, nextId, rejected, requests, probe>>

\* queue.unshift in place of queue.push: the retried entry jumps the queue
RetryPushAtHead(c) ==
  /\ ~FanInDue
  /\ BagIn(c, retry)
  /\ c.pc = "pushing"
  /\ queue' = <<[id |-> c.id, type |-> c.type]>> \o queue
  /\ retry' = retry (-) SetToBag({c})
  /\ UNCHANGED <<store, processing, batch, submitting, nextId, rejected, requests, probe>>

\* lines 246-252, the callback of the update: queue.push of the local copy
\* and the return
RetryPush(c) ==
  /\ ~FanInDue
  /\ BagIn(c, retry)
  /\ c.pc = "pushing"
  /\ queue' = Append(queue, [id |-> c.id, type |-> c.type])
  /\ retry' = retry (-) SetToBag({c})
  /\ UNCHANGED <<store, processing, batch, submitting, nextId, rejected, requests, probe>>

\* ---- DatabaseService.deleteOldNotifications ------------------------------------
\* DELETE ... WHERE createdAt < cutoff: the rows deleted are those created
\* up to some place j in the order of creation.  The cutoff lies whole days
\* back: a row whose INSERT callback has not run yet is younger than any
\* cutoff.
Purge(j) ==
  /\ \E i \in Ids : Exists(store, i) /\ store[i].createdAt <= j
  /\ \A e \in BagToSet(submitting) : e.ok => store[e.id].createdAt > j
  /\ store' = [i \in Ids |->
                 IF Exists(store, i) /\ store[i].createdAt <= j THEN Absent
                 ELSE store[i]]
  /\ UNCHANGED <<queue, processing, batch, submitting, retry, nextId, rejected, requests, probe>>

\* ---- specification ----------------------------------------------------------
Next ==
  \/ \E req \in Requests : SubmitSave(req)
  \/ \E e \in BagToSet(submitting) : SubmitPush(e)
  \/ Tick
  \/ \E k \in 1..(2 * BATCH_SIZE) : MarkProcessing(k)
  \/ \E k \in 1..(2 * BATCH_SIZE), r \in ProviderOutcomes : SendReturn(k, r)
  \/ \E k \in 1..(2 * BATCH_SIZE) : CatchWrite(k)
  \/ FanIn
  \/ \E id \in Ids : RetryStart(id)
  \/ \E c \in BagToSet(retry) : RetryUpdate(c)
  \/ \E c \in BagToSet(retry) : RetryPush(c)

Spec == Init /\ [][Next]_vars

\* the steps of the processor and the steps that complete a caller's request
ProcessorStep ==
  \/ Tick
  \/ \E k \in 1..(2 * BATCH_SIZE) : MarkProcessing(k)
  \/ \E k \in 1..(2 * BATCH_SIZE), r \in ProviderOutcomes : SendReturn(k, r)
  \/ \E k \in 1..(2 * BATCH_SIZE) : CatchWrite(k)
  \/ FanIn

CallerStep ==
  \/ \E e \in BagToSet(submitting) : SubmitPush(e)
  \/ \E c \in BagToSet(retry) : RetryUpdate(c)
  \/ \E c \in BagToSet(retry) : RetryPush(c)

\* the scheduling the claims assume: the interval keeps firing, every store
\* call completes, every provider call settles, every callback gets its turn
Fairness == WF_vars(ProcessorStep) /\ WF_vars(CallerStep)

FairSpec == Init /\ [][Next]_vars /\ Fairness

\* submission and dispatch alone, no caller retries anything
NextDispatch ==
  \/ \E req \in Requests : SubmitSave(req)
  \/ \E e \in BagToSet(submitting) : SubmitPush(e)
  \/ Tick
  \/ \E k \in 1..(2 * BATCH_SIZE) : MarkProcessing(k)
  \/ \E k \in 1..(2 * BATCH_SIZE), r \in ProviderOutcomes : SendReturn(k, r)
  \/ \E k \in 1..(2 * BATCH_SIZE) : CatchWrite(k)
  \/ FanIn

FairDispatchSpec == Init /\ [][NextDispatch]_vars /\ Fairness

\* submission, bulk submission and dispatch
NextBulk ==
  \/ \E req \in Requests : SubmitSave(req)
  \/ \E body \in BulkBodies : BulkSend(body)
  \/ \E e \in BagToSet(submitting) : SubmitPush(e)
  \/ \E e \in BagToSet(submitting) : BulkItemFailed(e)
  \/ Tick
  \/ \E k \in 1..(2 * BATCH_SIZE) : MarkProcessing(k)
  \/ \E k \in 1..(2 * BATCH_SIZE), r \in ProviderOutcomes : SendReturn(k, r)
  \/ \E k \in 1..(2 * BATCH_SIZE) : CatchWrite(k)
  \/ FanIn

BulkSpec == Init /\ [][NextBulk]_vars

\* the service together with the store's maintenance operation
NextPurge ==
  \/ Next
  \/ \E j \in Ids : Purge(j)

PurgeSpec == Init /\ [][NextPurge]_vars

\* every operation of the service and of its store
NextAll ==
  \/ Next
  \/ \E body \in BulkBodies : BulkSend(body)
  \/ \E e \in BagToSet(submitting) : BulkItemFailed(e)
  \/ \E j \in Ids : Purge(j)

AllSpec == Init /\ [][NextAll]_vars

\* ---- DatabaseService.deleteOldNotifications on its own ------------------------
\* the instants of the clock: a calendar day and a time of day
Instants == [day : 0..MaxDay, time : 0..MaxTime]

\* new Date().toISOString(): YYYY-MM-DD, the letter T, the time
IsoString(t) == [date |-> t.day, sep |-> "T", time |-> t.time]

\* SQLite's datetime(): YYYY-MM-DD, a space, the time
SqlDatetime(t) == [date |-> t.day, sep |-> " ", time |-> t.time]

CharCode(c) == IF c = " " THEN 32 ELSE 84

\* a < b between two TEXT values: the comparison of line 286 is SQLite's
\* comparison of strings, byte by byte (createdAt holds the text bound by
\* the INSERT, datetime() returns text).  The dates have the same width, so
\* they compare as the days do; then comes the separator; then the time.
TextLess(a, b) ==
  \/ a.date < b.date
  \/ /\ a.date = b.date
     /\ \/ CharCode(a.sep) < CharCode(b.sep)
        \/ CharCode(a.sep) = CharCode(b.sep) /\ a.time < b.time

\* the two rows of the table purge is tried on
Rows == {"a", "b"}

NoRow == [present |-> FALSE, createdAt |-> IsoString([day |-> 0, time |-> 0]),
          status |-> "-"]

\* a row as saveNotification writes it: createdAt is the timestamp of the
\* notification, an ISO string (server.js line 60, NotificationService.js
\* line 69)
RowCreatedAt(t, st) == [present |-> TRUE, createdAt |-> IsoString(t), status |-> st]

\* DELETE FROM notifications WHERE createdAt < datetime('now', '-N days'),
\* resolve({deleted: this.changes})
deleteOldNotifications(table, now, daysToKeep) ==
  LET cutoff == SqlDatetime([day |-> now.day - daysToKeep, time |-> now.time])
      old == {r \in Rows : table[r].present /\ TextLess(table[r].createdAt, cutoff)}
  IN [table |-> [r \in Rows |-> IF r \in old THEN NoRow ELSE table[r]],
      deleted |-> Cardinality(old)]

\* the tables, clocks and ages purge is tried on: the cutoff lies within the
\* days of the clock
DeleteOldInputs ==
  {[op |-> "deleteOld", table |-> t, now |-> c, daysToKeep |-> d,
    calls |-> 0, deleted |-> 0] :
      t \in [Rows -> {NoRow} \cup {RowCreatedAt(i, st) :
                                     i \in Instants, st \in {"pending", "sent"}}],
      c \in Instants, d \in 0..MaxDay}

InitDeleteOld ==
  /\ ServiceInit
  /\ probe \in {in \in DeleteOldInputs : in.daysToKeep <= in.now.day}

\* one call of deleteOldNotifications; the clock stands still between the
\* first call and the second
DeleteOld ==
  /\ probe.op = "deleteOld"
  /\ probe.calls < 2
  /\ LET res == deleteOldNotifications(probe.table, probe.now, probe.daysToKeep) IN
       probe' = [probe EXCEPT !.table = res.table, !.deleted = res.deleted,
                              !.calls = @ + 1]
  /\ UNCHANGED <<store, queue, processing, batch, submitting, retry, nextId,
                 rejected, requests>>

DeleteOldSpec == InitDeleteOld /\ [][DeleteOld]_vars

\* ---- the providers' send on its own ---------------------------------------------
Providers == {"email", "sms", "push", "webhook"}

\* a notification as send sees it: the recipient is well-formed for the
\* provider, malformed or absent; the message is a text or absent; metadata
\* is an object, absent or null.  The transport (sendMail, messages.create,
\* messaging().send, axios.post) resolves or rejects.
SendInputs ==
  {[op |-> "send", provider |-> p, recipient |-> r, message |-> m, metadata |-> d,
    transport |-> t, done |-> FALSE,
    result |-> [settled |-> "-", success |-> FALSE, error |-> "null"]] :
      p \in Providers, r \in {"valid", "invalid", "absent"},
      m \in {"text", "absent"}, d \in {"object", "absent", "null"},
      t \in {"resolves", "rejects"}}

\* the try block of send: the message of the error thrown inside it, "none"
\* when it runs to its return.  SMS checks the phone number (lines 66-68)
\* and takes message.length of what formatSMSMessage built (undefined when
\* message is absent and no metadata appends the signature); email
\* destructures metadata (generateEmailBody), which throws on null; push and
\* webhook read metadata with ?. only.  Then the transport is awaited.
TryBlock(in) ==
  IF in.provider = "sms" /\ in.recipient # "valid" THEN "Invalid phone number format"
  ELSE IF in.provider = "sms" /\ in.message = "absent" /\ in.metadata # "object"
    THEN "TypeError"
  ELSE IF in.provider = "email" /\ in.metadata = "null" THEN "TypeError"
  ELSE IF in.transport = "rejects" THEN "TransportError"
  ELSE "none"

\* a catch block that lets the error through to the caller
CatchBlockRethrows(err) == [settled |-> "rejected", success |-> FALSE, error |-> err]

\* the catch block of send: return {success: false, error: error.message}
CatchBlock(err) == [settled |-> "resolved", success |-> FALSE, error |-> err]

\* send(notification): the whole body is the try block and its catch
send(in) ==
  IF TryBlock(in) = "none"
  THEN [settled |-> "resolved", success |-> TRUE, error |-> "null"]
  ELSE CatchBlock(TryBlock(in))

InitSend ==
  /\ ServiceInit
  /\ probe \in SendInputs

\* one call of a provider's send
ProviderSend ==
  /\ probe.op = "send"
  /\ ~probe.done
  /\ probe' = [probe EXCEPT !.done = TRUE, !.result = send(probe)]
  /\ UNCHANGED <<store, queue, processing, batch, submitting, retry, nextId,
                 rejected, requests>>

SendSpec == InitSend /\ [][ProviderSend]_vars

\* ---- the status read ---------------------------------------------------------------
\* a route that answers 200 whatever the store returned
StatusAnswerAlwaysFound(db, id) == [code |-> 200, body |-> getNotification(db, id)]

\* GET /api/notifications/:id/status, server.js lines 88-96: 404 when the
\* service returned nothing (if (!notification)), else 200 with the record
StatusAnswer(db, id) ==
  IF ~Exists(db, id) THEN [code |-> 404, body |-> Absent]
  ELSE [code |-> 200, body |-> getNotification(db, id)]

\* getNotificationStatus(id): one SELECT, whose row (or none) is the answer.
\* The answer the caller receives is kept in probe; one read is followed per
\* behaviour, as one of the requests the callers make.
GetStatus(id) ==
  /\ probe.op = "none"
  /\ RequestsSoFar < MaxRequests
  /\ requests' = requests + 1
  /\ probe' = [op |-> "status", id |-> id, code |-> StatusAnswer(store, id).code,
               body |-> StatusAnswer(store, id).body]
  /\ UNCHANGED <<store, queue, processing, batch, submitting, retry, nextId, rejected>>

\* the store's maintenance operation run while the service is idle
IdlePurge ==
  /\ queue = <<>>
  /\ ~processing
  /\ submitting = EmptyBag
  /\ \E j \in Ids : Purge(j)

\* submission, dispatch, the purge of an idle service and a status read
NextRead ==
  \/ NextDispatch
  \/ IdlePurge
  \/ \E id \in Ids : GetStatus(id)

ReadSpec == Init /\ [][NextRead]_vars

\* ---- DatabaseService.getNotifications on its own -----------------------------------
\* texts are sequences of characters: a letter in both cases, another
\* letter, and the underscore
RecipientTexts == {<<"a">>, <<"b">>}

\* the recipient filter: <<>> stands for a filter that is not given (or is
\* the empty string, which if (recipient) takes for not given)
Needles == {<<>>, <<"a">>, <<"A">>, <<"_">>}

\* the rows of the table in the order of their createdAt, oldest first: the
\* createdAt of a row is its place in the sequence
ListRows == [type : Types, status : {"pending", "sent"}, recipient : RecipientTexts]
ListTables == UNION {[1..n -> ListRows] : n \in 0..MaxRows}

\* the options of a call: "" and 0 stand for a filter that is not given
ListOptions ==
  [type : {"", "email"}, status : {"", "sent"}, recipient : Needles,
   startDate : {0, MaxRows}, endDate : {0, 1}, limit : 0..MaxRows, offset : 0..1]

\* SQLite folds the case of ASCII letters when LIKE compares them
Fold(c) == IF c = "A" THEN "a" ELSE c

\* text LIKE pattern, as SQLite evaluates it: % matches any run of
\* characters, _ matches any one character, a letter matches itself in
\* either case
RECURSIVE Like(_, _)
Like(text, pattern) ==
  IF pattern = <<>> THEN text = <<>>
  ELSE IF Head(pattern) = "%"
  THEN Like(text, Tail(pattern)) \/ (text # <<>> /\ Like(Tail(text), pattern))
  ELSE /\ text # <<>>
       /\ Head(pattern) = "_" \/ Fold(Head(pattern)) = Fold(Head(text))
       /\ Like(Tail(text), Tail(pattern))

\* the WHERE clause lines 171-197 build: one AND per option that is truthy;
\* createdAt is compared with the bounds as they are given
ListWhere(table, k, o) ==
  /\ o.type # "" => table[k].type = o.type
  /\ o.status # "" => table[k].status = o.status
  /\ o.recipient # <<>> => Like(table[k].recipient, <<"%">> \o o.recipient \o <<"%">>)
  /\ o.startDate # 0 => k >= o.startDate
  /\ o.endDate # 0 => k <= o.endDate

\* the places of a sequence of places, last first
RECURSIVE Descending(_)
Descending(s) == IF s = <<>> THEN <<>> ELSE Append(Descending(Tail(s)), Head(s))

\* getNotifications(options): SELECT ... WHERE ... ORDER BY createdAt DESC
\* LIMIT ? OFFSET ?, resolved with the rows (here their places in the table),
\* their number, and the limit and offset of the call
getNotifications(table, o) ==
  LET matching == SelectSeq([k \in 1..Len(table) |-> k],
                            LAMBDA k : ListWhere(table, k, o))
      ordered == Descending(matching)
      page == SubSeq(ordered, o.offset + 1, Min(o.offset + o.limit, Len(ordered)))
  IN [notifications |-> page, total |-> Len(page), limit |-> o.limit,
      offset |-> o.offset]

InitList ==
  /\ ServiceInit
  /\ probe \in {[op |-> "list", table |-> t, options |-> o, done |-> FALSE,
                 result |-> [notifications |-> <<>>, total |-> 0, limit |-> 0,
                             offset |-> 0]] :
                   t \in ListTables, o \in ListOptions}

GetNotifications ==
  /\ probe.op = "list"
  /\ ~probe.done
  /\ probe' = [probe EXCEPT !.done = TRUE,
                            !.result = getNotifications(probe.table, probe.options)]
  /\ UNCHANGED <<store, queue, processing, batch, submitting, retry, nextId,
                 rejected, requests>>

ListSpec == InitList /\ [][GetNotifications]_vars

\* ---- dispatch with store writes that fail ------------------------------------------
\* updateNotification rejects (DatabaseService.js lines 127-130, SQLite
\* reports an error) for the first update of a member (line 97) or for the
\* write-back after its send (lines 114-118): nothing is written, the error
\* is thrown into the catch block, which issues its own update (lines 131-135)
UpdateFails(k) ==
  /\ k \in DOMAIN batch
  /\ batch[k].pc \in {"start", "sending"}
  /\ batch' = [batch EXCEPT ![k].pc = "dbcatch"]
  /\ UNCHANGED <<store, queue, processing, submitting, retry, nextId, rejected,
                 requests, probe>>

\* the catch block's update after a store error takes effect: failed, with
\* the message of the store's error
DbCatchWrite(k) ==
  /\ k \in DOMAIN batch
  /\ batch[k].pc = "dbcatch"
  /\ store' = updateNotification(store, batch[k].id, FailedPatch("SqlError"))
  /\ batch' = [batch EXCEPT ![k].pc = "done"]
  /\ UNCHANGED <<queue, processing, submitting, retry, nextId, rejected, requests, probe>>

\* the catch block's update rejects as well: the await of line 131 throws
\* out of the catch block, nothing is written, the invocation rejects and
\* the .catch of line 154 logs the error
CatchWriteFails(k) ==
  /\ k \in DOMAIN batch
  /\ batch[k].pc \in {"catch", "dbcatch"}
  /\ batch' = [batch EXCEPT ![k].pc = "done"]
  /\ UNCHANGED <<store, queue, processing, submitting, retry, nextId, rejected,
                 requests, probe>>

\* submission and dispatch on a store whose updates may fail
NextFault ==
  \/ NextDispatch
  \/ \E k \in 1..(2 * BATCH_SIZE) : UpdateFails(k)
  \/ \E k \in 1..(2 * BATCH_SIZE) : DbCatchWrite(k)
  \/ \E k \in 1..(2 * BATCH_SIZE) : CatchWriteFails(k)

FaultSpec == Init /\ [][NextFault]_vars

\* ---- dispatch with a send that never returns ----------------------------------------
\* the promise of provider.send (line 106) never settles: the invocation
\* stays at its await for good
SendHangs(k) ==
  /\ k \in DOMAIN batch
  /\ batch[k].pc = "sending"
  /\ batch' = [batch EXCEPT ![k].pc = "hung"]
  /\ UNCHANGED <<store, queue, processing, submitting, retry, nextId, rejected,
                 requests, probe>>

\* submission and dispatch with providers whose send may hang
NextHang ==
  \/ NextDispatch
  \/ \E k \in 1..(2 * BATCH_SIZE) : SendHangs(k)

HangSpec == Init /\ [][NextHang]_vars

\* ---- SMSProvider.calculateSMSSegments on its own ------------------------------------
\* segments of 160 characters whatever the length
calculateSMSSegmentsOf160(length) ==
  IF length <= 160 THEN 1 ELSE (length + 159) \div 160

\* lines 144-147, on message.length: 1 up to 160 characters, else
\* Math.ceil(length / 153)
calculateSMSSegments(length) ==
  IF length <= 160 THEN 1 ELSE (length + 152) \div 153

InitSegments ==
  /\ ServiceInit
  /\ probe \in {[op |-> "segments", length |-> n, done |-> FALSE,
                 result |-> 0, next |-> 0] : n \in 0..MaxLen}

\* the function applied to a message of the length and to one a character
\* longer
CalculateSegments ==
  /\ probe.op = "segments"
  /\ ~probe.done
  /\ probe' = [probe EXCEPT !.done = TRUE,
                            !.result = calculateSMSSegments(probe.length),
                            !.next = calculateSMSSegments(probe.length + 1)]
  /\ UNCHANGED <<store, queue, processing, batch, submitting, retry, nextId,
                 rejected, requests>>

SegmentsSpec == InitSegments /\ [][CalculateSegments]_vars

RunningMembers(b) == SelectSeq(b, Running)

IsPrefix(s, t) == Len(s) <= Len(t) /\ SubSeq(t, 1, Len(s)) = s

\* ---- C1 ----------------------------------------------------------------------
\* C1: a stored record never goes from pending straight to sent or failed:
\* every step that changes the status of a pending record makes it processing.
C1_NeverSkipsProcessing ==
  [][\A i \in Ids :
       store[i].status = "pending" => store'[i].status \in {"pending", "processing"}]_vars

\* ---- C2 ----------------------------------------------------------------------
\* C2: never more than batchSize notifications are being dispatched, and while
\* a batch is in flight no step dequeues anything or starts a dispatch: the
\* queue only grows at its tail and no member is added to those running.
C2_OneBatchInFlight ==
  [][/\ Len(RunningMembers(batch')) <= BATCH_SIZE
     /\ processing => /\ IsPrefix(queue, queue')
                       /\ Len(RunningMembers(batch')) <= Len(RunningMembers(batch))
                       /\ Len(batch') = Len(batch)]_vars

\* a full batch is in flight while entries wait in the queue: the ticks that
\* fire here are the skipped ones
C2_Witness ==
  /\ processing
  /\ Len(RunningMembers(batch)) = BATCH_SIZE
  /\ Len(queue) > 0

\* ---- C3 ----------------------------------------------------------------------
\* C3: while any member of a batch is still running the in-flight flag is set;
\* the flag is cleared only when every member has finished, and a batch is
\* started only when no member of the previous one is running.
C3_FanInAfterAllMembers ==
  [][/\ (RunningMembers(batch') # <<>>) => processing'
     /\ (processing /\ ~processing') => RunningMembers(batch) = <<>>
     /\ (~processing /\ processing') => RunningMembers(batch) = <<>>]_vars

\* the flag has been cleared after a full batch, every member finished
C3_Witness ==
  /\ ~processing
  /\ Len(batch) = BATCH_SIZE
  /\ AllSettled(batch)

\* member k of the batch finishes in this step
Finishes(k) ==
  /\ k \in DOMAIN batch /\ Running(batch[k])
  /\ k \in DOMAIN batch' /\ ~Running(batch'[k])

\* the status a finished member wrote
OwnOutcome(m) == IF m.result = "ok" THEN "sent" ELSE "failed"

\* ---- C4 ----------------------------------------------------------------------
\* C4: every member of a batch, whatever happens to its siblings, finishes, and
\* it finishes by its own path: if its type has a provider its send was
\* invoked and settled, and the step that finishes it writes its own sent or
\* failed status to the store.
C4_SiblingsUnaffected ==
  /\ [][\A k \in 1..BATCH_SIZE :
          Finishes(k) =>
            /\ batch[k].pc \in {"sending", "catch"}
            /\ HasProvider(batch[k].type) =>
                 (batch[k].pc = "sending" /\ batch'[k].result # "-")
            /\ store'[batch[k].id].status = OwnOutcome(batch'[k])]_vars
  /\ (RunningMembers(batch) # <<>>) ~> (batch # <<>> /\ AllSettled(batch))

\* a batch of two notifications: the first failed, its sibling was sent
C4_Witness ==
  /\ Len(batch) = 2
  /\ AllSettled(batch)
  /\ batch[1].id # batch[2].id
  /\ store[batch[1].id].status = "failed"
  /\ store[batch[1].id].retryCount = 0
  /\ store[batch[2].id].status = "sent"

C6_FailedResultRecorded ==
  [][\A k \in 1..BATCH_SIZE :
       (Finishes(k) /\ batch'[k].result = "fail") =>
          /\ store'[batch[k].id].status = "failed"
          /\ store'[batch[k].id].error # "null"
          /\ store'[batch[k].id].failedAt
          /\ ~store'[batch[k].id].sentAt]_vars

\* ---- C7 ----------------------------------------------------------------------
\* C7: when send throws or resolves with no result object, the step that
\* finishes the member writes failed, the error message and failedAt; and the
\* batch still ends: the in-flight flag is cleared afterwards.
C7_ContractViolationAbsorbed ==
  /\ [][\A k \in 1..BATCH_SIZE :
          (Finishes(k) /\ batch'[k].result \in {"throw", "none"}) =>
             /\ store'[batch[k].id].status = "failed"
             /\ store'[batch[k].id].error =
                  (IF batch'[k].result = "throw" THEN "SendThrew" ELSE "TypeError")
             /\ store'[batch[k].id].failedAt]_vars
  /\ (\E k \in DOMAIN batch : batch[k].result \in {"throw", "none"}) ~> ~processing

\* a record failed by a throwing send, its batch over
C7_Witness ==
  /\ ~processing
  /\ \E k \in DOMAIN batch :
        /\ ~Running(batch[k])
        /\ store[batch[k].id].status = "failed"
        /\ store[batch[k].id].error \in {"SendThrew", "TypeError"}
        /\ store[batch[k].id].failedAt

\* ---- C8 ----------------------------------------------------------------------
\* C8: a member whose type ("fax") has no provider is marked processing, never
\* gets to a send, and is then written failed with the missing-provider error,
\* by a step that leaves the queue alone.
C8_NoProviderFailsAtDispatch ==
  [][\A k \in 1..BATCH_SIZE :
       (k \in DOMAIN batch /\ Running(batch[k]) /\ batch[k].type = "fax"
          /\ k \in DOMAIN batch') =>
          /\ batch'[k].pc \in {"start", "catch", "done"}
          /\ batch'[k].result = "-"
          /\ (batch[k].pc = "start" /\ batch'[k].pc # "start")
                => store'[batch[k].id].status = "processing"
          /\ Finishes(k) => /\ batch[k].pc = "catch"
                            /\ store'[batch[k].id].status = "failed"
                            /\ store'[batch[k].id].error = "NoProvider"
                            /\ queue' = queue]_vars

\* a submitted fax notification was queued, dispatched and is now failed with
\* the missing-provider error, and is in no queue
C8_Witness ==
  \E k \in DOMAIN batch :
    /\ batch[k].type = "fax"
    /\ ~Running(batch[k])
    /\ store[batch[k].id].status = "failed"
    /\ store[batch[k].id].error = "NoProvider"
    /\ store[batch[k].id].retryCount = 0
    /\ \A j \in DOMAIN queue : queue[j].id # batch[k].id

\* ---- C9 ----------------------------------------------------------------------
\* C9: every stored record with status sent or failed has exactly one of
\* sentAt and failedAt set.
C9_ExactlyOneTimestamp ==
  \A i \in Ids :
    store[i].status \in {"sent", "failed"} => (store[i].sentAt # store[i].failedAt)

\* ---- C10 ---------------------------------------------------------------------
\* C10: a sent record carries providerResponse and no error, a failed record
\* carries error and no providerResponse.
C10_PayloadsExclusive ==
  \A i \in Ids :
    /\ store[i].status = "sent" =>
         (store[i].providerResponse # "null" /\ store[i].error = "null")
    /\ store[i].status = "failed" =>
         (store[i].error # "null" /\ store[i].providerResponse = "null")

\* ---- C11 ---------------------------------------------------------------------
\* C11: every step that changes the stored status of a record changes it
\* along the lifecycle, and to sent or failed only in a step of the Processor
\* that finishes a member, to pending from failed only in a step of a retry.
C11_StatusTransitions ==
  [][\A i \in Ids :
       store'[i].status # store[i].status =>
         /\ <<store[i].status, store'[i].status>> \in
              {<<"absent", "pending">>, <<"pending", "processing">>,
               <<"processing", "sent">>, <<"processing", "failed">>,
               <<"failed", "pending">>}
         /\ store'[i].status \in {"sent", "failed"} =>
              \E k \in DOMAIN batch : batch[k].id = i /\ Finishes(k)
         /\ store[i].status = "failed" => retry' # retry]_vars

\* ---- C12 ---------------------------------------------------------------------
\* C12: no step lowers the stored retryCount of a record, and the update of
\* every retry call that got past its checks raises it by exactly 1.
C12_RetryCountByOne ==
  [][/\ \A i \in Ids : store'[i].retryCount >= store[i].retryCount
     /\ \A c \in BagToSet(retry) :
          RetryUpdate(c) => store'[c.id].retryCount = store[c.id].retryCount + 1]_vars

\* ---- C13 ---------------------------------------------------------------------
\* C13: a retry call that reads a record with status pending, processing or
\* sent hands back the invalid-state error and changes nothing: the store, the
\* queue and the retry calls in progress stay as they are.
C13_RetryInvalidState ==
  [][\A id \in Ids :
       (store[id].status \in {"pending", "processing", "sent"} /\ RetryStart(id)) =>
          /\ rejected' = Reject("InvalidState")
          /\ UNCHANGED <<store, queue, retry, batch, processing>>]_vars

\* a retry was rejected with the invalid-state error while a sent record is
\* in the store
C13_Witness ==
  /\ BagIn("InvalidState", rejected)
  /\ \E i \in Ids : store[i].status = "sent" /\ store[i].retryCount = 0

\* ---- C14 ---------------------------------------------------------------------
\* C14: a retry call for an id with no stored record hands back the not-found
\* error, creates no record and leaves the queue as it is.
C14_RetryNotFound ==
  [][\A id \in Ids :
       (~Exists(store, id) /\ RetryStart(id)) =>
          /\ rejected' = Reject("NotFound")
          /\ ~Exists(store', id)
          /\ UNCHANGED <<store, queue, retry>>]_vars

\* a retry was rejected with the not-found error; a record is stored and
\* queued, under another id
C14_Witness ==
  /\ BagIn("NotFound", rejected)
  /\ \E i \in Ids : ~Exists(store, i)
  /\ Len(queue) > 0

\* ---- C15 ---------------------------------------------------------------------
\* C15: when a retry call returns, the stored record is pending with the
\* retryCount the call computed, error and failedAt are unset in the store,
\* and the id is the last entry of the queue.
C15_RetryResetsRecord ==
  [][\A c \in BagToSet(retry) :
       RetryPush(c) =>
          /\ store'[c.id].status = "pending"
          /\ store'[c.id].retryCount = c.rc
          /\ store'[c.id].error = "null"
          /\ ~store'[c.id].failedAt
          /\ queue' # <<>> /\ queue'[Len(queue')].id = c.id]_vars

\* ---- C16 ---------------------------------------------------------------------
\* C16: the step that starts a batch takes min(BATCH_SIZE, queue length)
\* entries, at least one, from the head of the queue: they are the members of
\* the batch in queue order, and the queue keeps the rest in their order.
C16_TickTakesHead ==
  [][(~processing /\ processing') =>
       LET n == IF Len(queue) < BATCH_SIZE THEN Len(queue) ELSE BATCH_SIZE IN
         /\ n >= 1
         /\ Len(batch') = n
         /\ \A k \in 1..n : /\ batch'[k].id = queue[k].id
                             /\ batch'[k].type = queue[k].type
                             /\ batch'[k].pc = "start"
         /\ Len(queue') = Len(queue) - n
         /\ \A k \in 1..Len(queue') : queue'[k] = queue[n + k]]_vars

\* a tick has just taken a full batch and left an entry in the queue
C16_Witness ==
  /\ processing
  /\ Len(batch) = BATCH_SIZE
  /\ \A k \in DOMAIN batch : batch[k].pc = "start"
  /\ submitting = EmptyBag
  /\ retry = EmptyBag
  /\ Len(queue) > 0

\* ---- C17 ---------------------------------------------------------------------
\* C17: the queue is FIFO.  Every step removes entries only as a head segment,
\* which becomes the new batch in queue order, and adds at most one entry,
\* behind everything that stays; a returning retry call adds its record as
\* the last entry.  So an entry queued before another is never dequeued
\* after it.
C17_QueueIsFifo ==
  [][/\ \E n \in 0..Len(queue) :
          /\ Len(queue') \in {Len(queue) - n, Len(queue) - n + 1}
          /\ IsPrefix(SubSeq(queue, n + 1, Len(queue)), queue')
          /\ n > 0 => /\ Len(batch') = n
                       /\ \A k \in 1..n : batch'[k].id = queue[k].id
     /\ \A c \in BagToSet(retry) :
          RetryPush(c) => /\ IsPrefix(queue, queue')
                          /\ Len(queue') = Len(queue) + 1
                          /\ queue'[Len(queue')].id = c.id]_vars

\* a retried record waits in the queue behind a record that was queued
\* before the retry and never retried
C17_Witness ==
  \E i, j \in DOMAIN queue :
    /\ i < j
    /\ store[queue[i].id].retryCount = 0
    /\ store[queue[j].id].retryCount > 0
    /\ store[queue[j].id].status = "pending"

\* ---- C18 ---------------------------------------------------------------------
\* C18: every id in the pending queue, and every id of a member of the batch
\* in flight, has a record in the store.
C18_QueuedIsPersisted ==
  /\ \A k \in DOMAIN queue : Exists(store, queue[k].id)
  /\ \A k \in DOMAIN batch : Running(batch[k]) => Exists(store, batch[k].id)

\* ---- C19 ---------------------------------------------------------------------
\* C19: at the step in which a submission returns, its record is stored with
\* status pending, its id has just become the last entry of the queue, and no
\* dispatch of it exists: no member of a batch carries the id.
C19_SubmitReturnsQueued ==
  [][\A e \in BagToSet(submitting) :
       SubmitPush(e) =>
          /\ store'[e.id].status = "pending"
          /\ queue' # <<>> /\ queue'[Len(queue')].id = e.id
          /\ \A k \in DOMAIN queue : queue[k].id # e.id
          /\ \A k \in DOMAIN batch' : batch'[k].id # e.id]_vars

\* a submission has returned while a batch is in flight: its record is
\* pending and queued behind the running dispatch of an earlier one
C19_Witness ==
  /\ processing
  /\ \E k \in DOMAIN batch : batch[k].pc = "sending"
  /\ \E k \in DOMAIN queue :
        /\ store[queue[k].id].status = "pending"
        /\ store[queue[k].id].retryCount = 0
        /\ \A e \in BagToSet(submitting) : e.id # queue[k].id

\* ---- C20 ---------------------------------------------------------------------
\* C20: a send whose body lacks recipient, message or type, and a bulk send
\* whose notifications field is not an array, is answered with its validation
\* error in the step that receives it, and that step leaves the store, the
\* queue and the submissions in progress as they are and hands out no id.
C20_ValidationRejects ==
  [][/\ \A req \in Requests :
          ((req.recipient = "" \/ req.message = "" \/ req.type = "") /\ SubmitSave(req)) =>
             /\ rejected' = Reject("MissingRequiredFields")
             /\ UNCHANGED <<store, queue, submitting, nextId, batch>>
     /\ \A body \in {[kind |-> k, items |-> <<>>] : k \in {"absent", "notArray"}} :
          (body \in BulkBodies /\ BulkSend(body)) =>
             /\ rejected' = Reject("ArrayRequired")
             /\ UNCHANGED <<store, queue, submitting, nextId, batch>>]_vars

\* a send and a bulk send were rejected by validation while an accepted
\* notification waits in the queue, the only record of the store
C20_Witness ==
  /\ BagIn("MissingRequiredFields", rejected)
  /\ BagIn("ArrayRequired", rejected)
  /\ Len(queue) = 1
  /\ nextId = 2

\* ---- C21 ---------------------------------------------------------------------
\* C21: a bulk call takes its items one at a time in input order and leaves
\* none out.  The step that receives a non-empty array submits its first item;
\* the step that ends an item, queued or failed, submits the item behind it
\* and hands back no error for the call as a whole; and an item whose INSERT
\* succeeded is appended to the queue by the step that ends it.
C21_BulkSubmitsEveryItem ==
  [][/\ \A body \in BulkBodies :
          (body.kind = "array" /\ body.items # <<>> /\ BulkSend(body)) =>
             \E f \in BagToSet(submitting') :
                /\ f.rest = Tail(body.items)
                /\ CopiesIn(f, submitting') > CopiesIn(f, submitting)
     /\ \A e \in BagToSet(submitting) :
          (e.rest # <<>> /\ (SubmitPush(e) \/ BulkItemFailed(e))) =>
             /\ rejected' = rejected
             /\ \E f \in BagToSet(submitting') :
                   /\ f.rest = Tail(e.rest)
                   /\ CopiesIn(f, submitting') >
                        CopiesIn(f, submitting (-) SetToBag({e}))
     /\ \A e \in BagToSet(submitting) :
          SubmitPush(e) => queue' = Append(queue, [id |-> e.id, type |-> e.type])]_vars

\* ---- C22 ---------------------------------------------------------------------
\* C22: the step that reaches a bulk item whose recipient is absent or empty
\* stores nothing and its INSERT fails, so that the item ends with an error
\* result and is never queued; the step that reaches a well-formed item
\* without an id of its own stores it as pending, to be queued.
C22_MalformedItemsRejected ==
  [][\A f \in BagToSet(submitting') :
       CopiesIn(f, submitting') > CopiesIn(f, submitting) =>
          IF f.recipient \in {"", "absent"}
          THEN ~f.ok /\ store' = store
          ELSE f.id = nextId => (f.ok /\ store'[f.id].status = "pending")]_vars

\* ---- C23 ---------------------------------------------------------------------
\* C23: the step that issues an INSERT under an id that has a record changes
\* nothing in the store and the INSERT fails; the step that ends a
\* notification whose INSERT failed leaves the queue and the existing record
\* as they are, and no step queues such a notification.
C23_DuplicateIdRejected ==
  [][/\ \A f \in BagToSet(submitting') :
          (CopiesIn(f, submitting') > CopiesIn(f, submitting) /\ Exists(store, f.id)) =>
             (~f.ok /\ store' = store)
     /\ \A e \in BagToSet(submitting) :
          (~e.ok /\ Exists(store, e.id)
             /\ CopiesIn(e, submitting') < CopiesIn(e, submitting)) =>
             /\ queue' = queue
             /\ store'[e.id] = store[e.id]]_vars

\* a bulk item that carries the id of a sent record waits for the callback
\* of its INSERT, which failed: the record is as it was, the id in no queue
C23_Witness ==
  \E f \in BagToSet(submitting) :
    /\ ~f.ok
    /\ f.recipient = "r"
    /\ store[f.id].status = "sent"
    /\ store[f.id].providerResponse = "ok"
    /\ \A k \in DOMAIN queue : queue[k].id # f.id

\* ---- C24 ---------------------------------------------------------------------
\* C24: a record comes into being only under an id that no record has had
\* before: every step that creates a record creates it under the fresh id,
\* which is thereby used up.
C24_IdNeverReused ==
  [][\A i \in Ids :
       (~Exists(store, i) /\ Exists(store', i)) =>
          (i = nextId /\ nextId' = nextId + 1)]_vars

\* ---- C25 ---------------------------------------------------------------------
\* C25: an update of an id that has no record fails and creates no record.
\* The dispatch that issues its first update for a record that is gone gets
\* the failure: it goes to its catch block, not on to the provider.
C25_UpdateOfMissingFails ==
  [][\A k \in 1..BATCH_SIZE :
       (k \in DOMAIN batch /\ ~Exists(store, batch[k].id) /\ MarkProcessing(k)) =>
          /\ updateNotificationFails(store, batch[k].id)
          /\ batch'[k].pc = "catch"
          /\ ~Exists(store', batch[k].id)]_vars

\* ---- C26 ---------------------------------------------------------------------
\* C26: a call of deleteOldNotifications deletes exactly the rows created
\* before now - daysToKeep, whatever their status, keeps the others as they
\* are and returns the number deleted; a second call at the same clock
\* deletes 0 and changes nothing.
C26_PurgeDeletesOlderThanCutoff ==
  [][(probe.op = "deleteOld" /\ probe'.calls = probe.calls + 1) =>
       LET cutoff == [date |-> probe.now.day - probe.daysToKeep, time |-> probe.now.time]
           old == {r \in Rows :
                     /\ probe.table[r].present
                     /\ \/ probe.table[r].createdAt.date < cutoff.date
                        \/ /\ probe.table[r].createdAt.date = cutoff.date
                           /\ probe.table[r].createdAt.time < cutoff.time}
       IN /\ \A r \in Rows :
               probe'.table[r] = IF r \in old THEN NoRow ELSE probe.table[r]
          /\ probe'.deleted = Cardinality(old)
          /\ probe.calls = 1 => (probe'.deleted = 0 /\ probe'.table = probe.table)]_vars

\* ---- C27 ---------------------------------------------------------------------
\* C27: nothing but a caller puts a record back in the queue, and no send is
\* invoked for a record that is failed.  Every step that adds an entry to the
\* queue is the return of a submission or of a retry call; and when a
\* dispatch goes on to call send, the stored status of its record is not
\* failed: since the record failed, a retry has reset it.
C27_NoAutomaticRetry ==
  [][/\ Len(queue') > Len(queue) =>
          \/ \E e \in BagToSet(submitting) : SubmitPush(e)
          \/ \E c \in BagToSet(retry) : RetryPush(c)
     /\ \A k \in DOMAIN batch :
          (batch[k].pc = "start" /\ k \in DOMAIN batch' /\ batch'[k].pc = "sending") =>
             store[batch[k].id].status # "failed"]_vars

\* ---- C28 ---------------------------------------------------------------------
\* C28: a tick that finds the queue empty changes nothing, and while the
\* queue is empty no step sets the in-flight flag or starts a dispatch:
\* every step taken from such a state leaves the flag unset if it was, and
\* adds no member to those of the batch.
C28_EmptyQueueTickIsNoOp ==
  [][Len(queue) = 0 =>
       /\ Tick => UNCHANGED <<queue, store, processing, batch>>
       /\ processing' => processing
       /\ Len(batch') = Len(batch)
       /\ \A k \in DOMAIN batch : batch[k].pc # "start" => batch'[k].pc # "start"]_vars

\* the queue is empty and nothing is in flight, after a batch that sent one
\* record and failed the other: the ticks that fire here are no-ops
C28_Witness ==
  /\ Len(queue) = 0
  /\ ~processing
  /\ submitting = EmptyBag
  /\ Len(batch) = 2
  /\ AllSettled(batch)
  /\ store[batch[1].id].status = "sent"
  /\ store[batch[2].id].status = "failed"

\* ---- C29 ---------------------------------------------------------------------
\* C29: a call of send of any of the four providers resolves, it never
\* rejects; its result has success=true, or success=false with an error
\* message; and the result is success=false when the transport rejected and
\* when the SMS provider was given a recipient that is no phone number.
C29_SendNeverRaises ==
  (probe.op = "send" /\ probe.done) =>
     /\ probe.result.settled = "resolved"
     /\ probe.result.success \/ probe.result.error # "null"
     /\ probe.transport = "rejects" => ~probe.result.success
     /\ (probe.provider = "sms" /\ probe.recipient # "valid") => ~probe.result.success

\* send of the SMS provider has returned success=false with its message for
\* a malformed phone number, the transport never asked
C29_Witness ==
  /\ probe.op = "send"
  /\ probe.done
  /\ probe.provider = "sms"
  /\ probe.recipient = "invalid"
  /\ probe.result = [settled |-> "resolved", success |-> FALSE,
                     error |-> "Invalid phone number format"]

\* ---- C30 ---------------------------------------------------------------------
\* C30: updates of one record that overlap take effect one after the other.
\* Every change of a stored record is one whole update applied to the record
\* as it is at that step: the columns of the patch of an update in flight
\* for that id take the patch's values, every other column keeps its value.
\* And the update of a retry call leaves the record as that retry, run at
\* this step, would leave it: pending with retryCount raised by 1 if the
\* record is failed, unchanged if it is not.
C30_UpdatesAreAtomic ==
  [][/\ \A c \in BagToSet(retry) :
          (c.pc = "updating" /\ RetryUpdate(c)) =>
             store'[c.id] =
               IF store[c.id].status = "failed"
               THEN [store[c.id] EXCEPT !.status = "pending", !.retryCount = @ + 1,
                                        !.updatedAt = TRUE]
               ELSE store[c.id]
     /\ \A i \in Ids :
          (Exists(store, i) /\ store'[i] # store[i]) =>
          \E patch \in
              {ProcessingPatch : k \in {k \in DOMAIN batch :
                                          batch[k].id = i /\ batch[k].pc = "start"}}
              \cup {FailedPatch(CatchError(batch[k].type, "-")) :
                      k \in {k \in DOMAIN batch : batch[k].id = i /\ batch[k].pc = "catch"}}
              \cup UNION {{[status |-> "sent", providerResponse |-> "ok", sentAt |-> TRUE],
                           [status |-> "failed", providerResponse |-> "fail", sentAt |-> TRUE],
                           [status |-> "failed", error |-> "SendThrew", failedAt |-> TRUE],
                           [status |-> "failed", error |-> "TypeError", failedAt |-> TRUE]} :
                            k \in {k \in DOMAIN batch :
                                     batch[k].id = i /\ batch[k].pc = "sending"}}
              \cup {[status |-> "pending", retryCount |-> c.rc] :
                      c \in {c \in BagToSet(retry) : c.id = i /\ c.pc = "updating"}} :
            \A f \in DOMAIN store[i] \ {"updatedAt"} :
               store'[i][f] = IF f \in DOMAIN patch THEN patch[f] ELSE store[i][f]]_vars

\* ---- C31 ---------------------------------------------------------------------
\* C31: a status read of an id that has no stored record (never submitted, or
\* purged) answers not found, a read of a stored id answers with the stored
\* record, and the read changes neither the store nor the queue.
C31_StatusIsPureRead ==
  [][\A id \in Ids :
       (probe.op = "none" /\ GetStatus(id)) =>
          /\ ~Exists(store, id) => probe'.code = 404
          /\ Exists(store, id) => probe'.code = 200 /\ probe'.body = store[id]
          /\ store' = store
          /\ queue' = queue
          /\ batch' = batch]_vars

\* a read answered with the record of a notification that was sent
C31_Witness ==
  /\ probe.op = "status"
  /\ probe.code = 200
  /\ probe.body.status = "sent"
  /\ probe.body = store[probe.id]

\* ---- C32 ---------------------------------------------------------------------
\* C32: list(filter) returns exactly the rows that match every filter given:
\* the type, the status, the recipient containing the filter's text, createdAt
\* within the range; newest first, without the first offset of them, at most
\* limit of them; and it returns the limit and offset of the call.
C32_ListReturnsMatches ==
  (probe.op = "list" /\ probe.done) =>
    LET t == probe.table
        o == probe.options
        Contains(text, needle) ==
          \E i \in 1..(Len(text) + 1 - Len(needle)) :
             SubSeq(text, i, i + Len(needle) - 1) = needle
        Matches(k) ==
          /\ o.type # "" => t[k].type = o.type
          /\ o.status # "" => t[k].status = o.status
          /\ o.recipient # <<>> => Contains(t[k].recipient, o.recipient)
          /\ o.startDate # 0 => k >= o.startDate
          /\ o.endDate # 0 => k <= o.endDate
        res == probe.result.notifications
        n == Cardinality({k \in 1..Len(t) : Matches(k)})
    IN /\ \A i \in 1..Len(res) : res[i] \in 1..Len(t) /\ Matches(res[i])
       /\ \A i, j \in 1..Len(res) : i < j => res[i] > res[j]
       /\ Len(res) = Min(o.limit, IF n > o.offset THEN n - o.offset ELSE 0)
       /\ \A i \in 1..Len(res) :
            Cardinality({k \in 1..Len(t) : Matches(k) /\ k > res[i]}) = o.offset + i - 1
       /\ probe.result.limit = o.limit
       /\ probe.result.offset = o.offset

C34_SentIsAbsorbing ==
  [][\A i \in Ids :
       store[i].status = "sent" =>
          /\ store'[i].status = "sent"
          /\ \A k \in DOMAIN batch :
               (k \in DOMAIN batch' /\ batch[k].id = i /\ batch[k].pc = "start")
                  => batch'[k].pc # "sending"]_vars

\* ---- C35 ---------------------------------------------------------------------
\* C35: no id is present more than once in the queue and the members in
\* flight taken together, also when two retry calls for one failed record
\* overlap.
C35_NoDuplicateInQueueAndBatch ==
  \A i \in Ids :
     Cardinality({k \in DOMAIN queue : queue[k].id = i})
       + Cardinality({k \in DOMAIN batch : batch[k].id = i /\ Running(batch[k])}) <= 1

\* ---- C36 ---------------------------------------------------------------------
\* C36: a stored record whose status is pending is in the queue or is the
\* record of a member in flight (or of a call that is between its write and
\* its push), also when a store write fails during dispatch.
C36_NoOrphanedPending ==
  \A i \in Ids :
     store[i].status = "pending" =>
        \/ \E k \in DOMAIN queue : queue[k].id = i
        \/ \E k \in DOMAIN batch : batch[k].id = i /\ Running(batch[k])
        \/ \E e \in BagToSet(submitting) : e.id = i /\ e.ok
        \/ \E c \in BagToSet(retry) : c.id = i

\* ---- C37 ---------------------------------------------------------------------
\* C37: once a send of the batch in flight never returns, the flag is set and
\* stays set, the member stays where it is, and no step takes anything from
\* the queue or starts a dispatch: what is queued behind that batch stays
\* queued for good.
C37_HungSendBlocksQueue ==
  [][(\E k \in DOMAIN batch : batch[k].pc = "hung") =>
        /\ processing /\ processing'
        /\ Len(batch') = Len(batch)
        /\ \A k \in DOMAIN batch :
             /\ batch[k].pc = "hung" => batch'[k].pc = "hung"
             /\ batch[k].pc = "done" => batch'[k].pc = "done"
        /\ IsPrefix(queue, queue')]_vars

\* a send hangs, its sibling has ended, and a notification waits in the queue
C37_Witness ==
  /\ processing
  /\ Len(queue) > 0
  /\ \E k \in DOMAIN batch : batch[k].pc = "hung"
  /\ \E k \in DOMAIN batch : batch[k].pc = "done" /\ batch[k].result = "ok"

\* ---- C38 ---------------------------------------------------------------------
\* C38: an update changes the columns its patch names and updatedAt, and
\* leaves every other column of the record and every other record as they
\* were; the type of a record, and the id it is stored under, never change.
C38_UpdateIsMergePatch ==
  [][store' # store =>
       LET Patches ==
             {ProcessingPatch}
               \cup {OutcomePatch(r) : r \in {"ok", "fail"}}
               \cup {FailedPatch(e) : e \in {"NoProvider", "SendThrew", "TypeError"}}
               \cup {RetryPatch(rc) : rc \in 1..(MaxRequests + 1)}
           changed == {i \in Ids : Exists(store, i) /\ store'[i] # store[i]}
       IN /\ Cardinality(changed) <= 1
          /\ \A i \in changed :
               /\ Exists(store', i)
               /\ store'[i].type = store[i].type
               /\ store'[i].createdAt = store[i].createdAt
               /\ \E patch \in Patches :
                    \A f \in DOMAIN store[i] :
                       store'[i][f] = IF f \in DOMAIN patch THEN patch[f]
                                      ELSE IF f = "updatedAt" THEN TRUE
                                      ELSE store[i][f]]_vars

\* a retry's update has set status and retryCount of a failed record and left
\* the error and failedAt written by the dispatch that failed
C38_Witness ==
  \E i \in Ids :
     /\ store[i].status = "pending"
     /\ store[i].retryCount = 1
     /\ store[i].error = "SendThrew"
     /\ store[i].failedAt
     /\ store[i].updatedAt

\* ---- C39 ---------------------------------------------------------------------
\* C39: the status of every stored record is one of pending, processing, sent,
\* failed, and every step that creates a record creates it with status
\* pending, also the step of a bulk call whose item carries a status of its
\* own.
C39_StatusInRangeCreatedPending ==
  [][\A i \in Ids :
       /\ Exists(store', i) => store'[i].status \in {"pending", "processing", "sent", "failed"}
       /\ (~Exists(store, i) /\ Exists(store', i)) => store'[i].status = "pending"]_vars

\* the first item of a bulk call, which like every item carries the status
\* sent, has been stored, as pending, and the loop has items left
C39_Witness ==
  \E e \in BagToSet(submitting) :
     /\ e.ok
     /\ e.rest # <<>>
     /\ \A item \in BulkItems : item.shape = "object" => item.status = "sent"
     /\ store[e.id].status = "pending"

\* ---- C40 ---------------------------------------------------------------------
\* C40: the segment count of a message is 1 when its length is at most 160
\* and otherwise the least number of 153-character parts that hold it; it is
\* at least 1, and a message one character longer never has fewer segments.
C40_SegmentCount ==
  (probe.op = "segments" /\ probe.done) =>
     /\ probe.length <= 160 => probe.result = 1
     /\ probe.length > 160 => /\ 153 * probe.result >= probe.length
                              /\ 153 * (probe.result - 1) < probe.length
     /\ probe.result >= 1
     /\ probe.next >= probe.result

\* the first length that needs a third segment
C40_Witness ==
  /\ probe.op = "segments"
  /\ probe.done
  /\ probe.length = 307
  /\ probe.result = 3

TypeOK ==
  /\ processing \in BOOLEAN
  /\ nextId \in 1..(MaxRequests + 1)
  /\ requests \in 0..MaxRequests
  /\ \A i \in Ids : store[i].status \in {"absent", "pending", "processing", "sent", "failed"}
====
